---------------------------- MODULE Spec2Model ----------------------------
(***************************************************************************)
(* go-strval: the lenient scalar wrappers Bool, Int and Float.             *)
(*                                                                         *)
(* A string is a sequence of one-character strings (<<"4", "2">> is "42"), *)
(* so that trimming, case folding and number parsing are computed          *)
(* character by character, as strings/strconv compute them.                *)
(*                                                                         *)
(* Go's int is 64 bits wide and float64 carries a 53-bit significand.      *)
(* Both are scaled down: int is IntBits wide, a float carries MantBits     *)
(* significand bits and a binary exponent of at most ExpMax, with          *)
(* MantBits < IntBits - 1 as 53 < 63, so that integers exist which no      *)
(* float holds exactly, and floats exist which no int holds.  A finite     *)
(* float is counted in halves, the model's smallest step: h = 5 is 2.5.    *)
(***************************************************************************)
EXTENDS Integers, Sequences, FiniteSets, TLC

\* scaled widths (see above) and the length of the enumerated strings
IntBits == 6
MantBits == 4
ExpMax == 4
MaxLen == 2
\* the number of wrapper instances used at the same time
NumInst == 2

RECURSIVE Pow(_, _)
Pow(b, n) == IF n <= 0 THEN 1 ELSE b * Pow(b, n - 1)

MaxInt == Pow(2, IntBits - 1) - 1
MinInt == 0 - Pow(2, IntBits - 1)

Abs(x) == IF x < 0 THEN 0 - x ELSE x

--------------------------------------------------------------------------
(* strings *)

Upper == <<"A","B","C","D","E","F","G","H","I","J","K","L","M",
           "N","O","P","Q","R","S","T","U","V","W","X","Y","Z">>
Lower == <<"a","b","c","d","e","f","g","h","i","j","k","l","m",
           "n","o","p","q","r","s","t","u","v","w","x","y","z">>
Digits == <<"0","1","2","3","4","5","6","7","8","9">>

\* unicode.IsSpace on the ASCII range
WhiteSpace == {" ", "\t", "\n", "\r"}

IsDigit(c) == \E k \in 1..10 : Digits[k] = c
DigitVal(c) == (CHOOSE k \in 1..10 : Digits[k] = c) - 1

ToLowerCh(c) ==
    IF \E k \in 1..26 : Upper[k] = c
    THEN Lower[CHOOSE k \in 1..26 : Upper[k] = c]
    ELSE c

\* strings.ToLower
ToLower(s) == [k \in 1..Len(s) |-> ToLowerCh(s[k])]

RECURSIVE TrimLeft(_)
TrimLeft(s) ==
    IF s # <<>> /\ Head(s) \in WhiteSpace THEN TrimLeft(Tail(s)) ELSE s

RECURSIVE TrimRight(_)
TrimRight(s) ==
    IF s # <<>> /\ s[Len(s)] \in WhiteSpace
    THEN TrimRight(SubSeq(s, 1, Len(s) - 1))
    ELSE s

\* strings.TrimSpace
TrimSpace(s) == TrimRight(TrimLeft(s))

--------------------------------------------------------------------------
(* errors: "nil", or a kind with the text it carries *)

NoErr == [kind |-> "nil", text |-> <<>>]
Err(k, t) == [kind |-> k, text |-> t]

\* the (value, error) pair a Go function returns
Ret(v, e) == [val |-> v, err |-> e]

--------------------------------------------------------------------------
(* parseBool *)

TrueWords == { <<"t","r","u","e">>, <<"y","e","s">>, <<"y">>, <<"1">> }
FalseWords == { <<"f","a","l","s","e">>, <<"n","o">>, <<"n">>, <<"0">> }

\* parseBool without the lower-casing
parseBoolCaseSensitive(s) ==
    LET n == TrimSpace(s)
    IN  IF n \in TrueWords THEN Ret(TRUE, NoErr)
        ELSE IF n \in FalseWords THEN Ret(FALSE, NoErr)
        ELSE Ret(FALSE, Err("cannot parse as bool", n))

parseBool(s) ==
    LET n == ToLower(TrimSpace(s))
    IN  IF n \in TrueWords THEN Ret(TRUE, NoErr)
        ELSE IF n \in FalseWords THEN Ret(FALSE, NoErr)
        ELSE Ret(FALSE, Err("cannot parse as bool", n))

--------------------------------------------------------------------------
(* integers: strconv.Atoi, strconv.Itoa *)

RECURSIVE DigitsVal(_)
\* the number a run of decimal digits denotes
DigitsVal(s) ==
    IF s = <<>> THEN 0
    ELSE 10 * DigitsVal(SubSeq(s, 1, Len(s) - 1)) + DigitVal(s[Len(s)])

AllDigits(s) == s # <<>> /\ \A k \in 1..Len(s) : IsDigit(s[k])

HasSign(s) == s # <<>> /\ Head(s) \in {"+", "-"}
Unsigned(s) == IF HasSign(s) THEN Tail(s) ELSE s
IsNeg(s) == s # <<>> /\ Head(s) = "-"

InIntRange(n) == MinInt <= n /\ n <= MaxInt

SignedVal(s) ==
    IF IsNeg(s) THEN 0 - DigitsVal(Unsigned(s)) ELSE DigitsVal(Unsigned(s))

\* the int n that the text s denotes, if the int holds it
Ranged(s, n) ==
    IF InIntRange(n) THEN Ret(n, NoErr)
    ELSE Ret(IF n < 0 THEN MinInt ELSE MaxInt, Err("value out of range", s))

\* an Atoi that trims the text first
AtoiTrimmed(s) ==
    IF ~AllDigits(Unsigned(TrimSpace(s))) THEN Ret(0, Err("invalid syntax", s))
    ELSE Ranged(s, SignedVal(TrimSpace(s)))

\* strconv.Atoi: an optional sign and decimal digits, nothing else; the
\* value must fit the int
Atoi(s) ==
    IF ~AllDigits(Unsigned(s)) THEN Ret(0, Err("invalid syntax", s))
    ELSE Ranged(s, SignedVal(s))

RECURSIVE NatText(_)
NatText(n) ==
    IF n < 10 THEN <<Digits[n + 1]>>
    ELSE NatText(n \div 10) \o <<Digits[(n % 10) + 1]>>

\* the decimal text of an integer, as strconv and encoding/json write it
Itoa(n) == IF n < 0 THEN <<"-">> \o NatText(0 - n) ELSE NatText(n)

--------------------------------------------------------------------------
(* floats *)

Fin(h) == [c |-> "fin", h |-> h]
NaN == [c |-> "nan", h |-> 0]
Inf(neg) == [c |-> "inf", h |-> IF neg THEN 0 - 1 ELSE 1]
FZero == Fin(0)

IsFinite(x) == x.c = "fin"

MantLimit == Pow(2, MantBits)
\* the largest finite float, in halves
FMaxH == (MantLimit - 1) * Pow(2, ExpMax)

RECURSIVE ExpOf(_, _, _)
\* the least binary exponent e >= e0 at which a / (b * 2^e) is below the
\* significand's limit
ExpOf(a, b, e) ==
    IF a \div (b * Pow(2, e)) < MantLimit THEN e ELSE ExpOf(a, b, e + 1)

\* a / b rounded to the nearest integer, ties to even
RoundHalfEven(a, b) ==
    LET q == a \div b
        r == a % b
    IN  IF 2 * r < b THEN q
        ELSE IF 2 * r > b THEN q + 1
        ELSE IF q % 2 = 0 THEN q ELSE q + 1

\* the float of sign neg, significand m and binary exponent e; a
\* significand that rounded up to the limit moves to the next exponent, and
\* an exponent past the largest is an infinity
Pack(neg, m, e) ==
    IF m = MantLimit THEN
        IF e + 1 > ExpMax THEN Inf(neg)
        ELSE Fin((IF neg THEN 0 - 1 ELSE 1) * (MantLimit \div 2) * Pow(2, e + 1))
    ELSE IF e > ExpMax THEN Inf(neg)
    ELSE Fin((IF neg THEN 0 - 1 ELSE 1) * m * Pow(2, e))

RoundAt(neg, n, d, e) == Pack(neg, RoundHalfEven(2 * n, d * Pow(2, e)), e)

\* the float nearest to (-1)^neg * n / d (n >= 0, d > 0), ties to even;
\* beyond the largest finite float the result is an infinity
RoundRat(neg, n, d) == RoundAt(neg, n, d, ExpOf(2 * n, d, 0))

\* the conversion float64(n) of an integer
IntToFloat(n) == RoundRat(n < 0, Abs(n), 1)

\* the integral part of a finite float, toward zero
Trunc(x) == IF x.h < 0 THEN 0 - ((0 - x.h) \div 2) ELSE x.h \div 2

IsIntegral(x) == IsFinite(x) /\ x.h % 2 = 0

\* what a build may produce for int(x) when the int cannot hold x: the Go
\* specification leaves the value to the implementation
ImplDefInts == {MinInt, 0, MaxInt}

\* the conversion int(x) rounding down
FloatToIntFloor(x) ==
    IF IsFinite(x) /\ InIntRange(Trunc(x))
    THEN {IF x.h < 0 /\ x.h % 2 # 0 THEN Trunc(x) - 1 ELSE Trunc(x)}
    ELSE ImplDefInts

\* the conversion int(x) of a float: the possible results
FloatToInt(x) ==
    IF IsFinite(x) /\ InIntRange(Trunc(x)) THEN {Trunc(x)} ELSE ImplDefInts

FirstIn(s, cs) ==
    IF \E k \in 1..Len(s) : s[k] \in cs
    THEN CHOOSE k \in 1..Len(s) : s[k] \in cs /\ \A j \in 1..(k - 1) : s[j] \notin cs
    ELSE 0

\* the float a decimal number denotes: the digits ds (the point removed),
\* scaled by ten to the dexp.  When 10^dexp alone is past the largest
\* finite float, or the number is below 0.1, the power is not computed.
DecimalValue(neg, ds, dexp) ==
    IF DigitsVal(ds) = 0 THEN FZero
    ELSE IF dexp >= Len(NatText(FMaxH)) THEN Inf(neg)
    ELSE IF dexp < 0 - Len(ds) THEN FZero
    ELSE IF dexp >= 0 THEN RoundRat(neg, DigitsVal(ds) * Pow(10, dexp), 1)
    ELSE RoundRat(neg, DigitsVal(ds), Pow(10, 0 - dexp))

\* a number read: ok, or what it denotes
Checked(s, ok, x) ==
    IF ~ok THEN Ret(FZero, Err("invalid syntax", s))
    ELSE IF ~IsFinite(x) THEN Ret(x, Err("value out of range", s))
    ELSE Ret(x, NoErr)

\* the integer digits, the fraction digits, and the exponent if there is one
ReadParts(s, neg, ip, fp, hasExp, expo) ==
    Checked(s,
            AllDigits(ip \o fp) /\ (hasExp => AllDigits(Unsigned(expo))),
            DecimalValue(neg, ip \o fp,
                         (IF hasExp THEN SignedVal(expo) ELSE 0) - Len(fp)))

\* the mantissa split at its point, at position dot (0: no point)
ReadMantissa(s, neg, mant, dot, hasExp, expo) ==
    IF dot = 0 THEN ReadParts(s, neg, mant, <<>>, hasExp, expo)
    ELSE ReadParts(s, neg, SubSeq(mant, 1, dot - 1),
                   SubSeq(mant, dot + 1, Len(mant)), hasExp, expo)

\* the number split at its exponent mark, at position ePos (0: no exponent)
ReadFloat(s, neg, low, ePos) ==
    IF ePos = 0
    THEN ReadMantissa(s, neg, low, FirstIn(low, {"."}), FALSE, <<>>)
    ELSE ReadMantissa(s, neg, SubSeq(low, 1, ePos - 1),
                      FirstIn(SubSeq(low, 1, ePos - 1), {"."}),
                      TRUE, SubSeq(low, ePos + 1, Len(low)))

\* the unsigned text low, lower-cased, of the number s
ParseSpecial(s, low) ==
    IF ToLower(s) = <<"n","a","n">> THEN Ret(NaN, NoErr)
    ELSE IF low \in { <<"i","n","f">>, <<"i","n","f","i","n","i","t","y">> }
         THEN Ret(Inf(IsNeg(s)), NoErr)
    ELSE ReadFloat(s, IsNeg(s), low, FirstIn(low, {"e"}))

\* strconv.ParseFloat(s, 64) on decimal text: "NaN", a signed "Inf" or
\* "Infinity" in any case, or digits with an optional point and an optional
\* decimal exponent.  (Hexadecimal floats and digit-separating underscores
\* use characters outside the model's alphabet.)
ParseFloat(s) == ParseSpecial(s, ToLower(Unsigned(s)))

\* the shortest decimal text of a finite float, as strconv.FormatFloat
\* writes it: no point for an integral value
FormatFloat(x) ==
    LET a == Abs(x.h)
        t == NatText(a \div 2) \o (IF a % 2 = 1 THEN <<".", "5">> ELSE <<>>)
    IN  IF x.h < 0 THEN <<"-">> \o t ELSE t

--------------------------------------------------------------------------
(* values in flight: document tokens, database raw values, Go values *)

\* one record shape for all of them: k the kind, and the payload the kind
\* uses (b a boolean, n an integer, x a float, txt a text)
Datum(k, b, n, x, txt) == [k |-> k, b |-> b, n |-> n, x |-> x, txt |-> txt]

None == Datum("none", FALSE, 0, FZero, <<>>)

\* the wrapper's value: a Go bool, int or float64
BoolV(b) == Datum("bool", b, 0, FZero, <<>>)
IntV(n) == Datum("int", FALSE, n, FZero, <<>>)
FloatV(x) == Datum("float64", FALSE, 0, x, <<>>)

\* document tokens (JSON bytes, a YAML node): a number and a string carry
\* their literal text, a boolean its value and the word it is written as
NullTok == Datum("null", FALSE, 0, FZero, <<>>)
BoolTok(b) ==
    Datum("bool", b, 0, FZero,
          IF b THEN <<"t","r","u","e">> ELSE <<"f","a","l","s","e">>)
NumTok(txt) == Datum("num", FALSE, 0, FZero, txt)
StrTok(txt) == Datum("str", FALSE, 0, FZero, txt)
ArrTok == Datum("arr", FALSE, 0, FZero, <<>>)
ObjTok == Datum("obj", FALSE, 0, FZero, <<>>)

\* database raw values (driver.Value and what else a driver may hand over)
RawNil == Datum("nil", FALSE, 0, FZero, <<>>)
RawBool(b) == Datum("bool", b, 0, FZero, <<>>)
RawInt64(n) == Datum("int64", FALSE, n, FZero, <<>>)
RawFloat64(x) == Datum("float64", FALSE, 0, x, <<>>)
RawString(txt) == Datum("string", FALSE, 0, FZero, txt)
RawInt(n) == Datum("int", FALSE, n, FZero, <<>>)
RawBytes(txt) == Datum("[]uint8", FALSE, 0, FZero, txt)
RawFloat32(x) == Datum("float32", FALSE, 0, x, <<>>)
RawTime == Datum("time.Time", FALSE, 0, FZero, <<>>)

--------------------------------------------------------------------------
(* encoding/json: json.Unmarshal(data, &v) into a fresh zero v *)

TypeErr(tok, goType) == Err("json: cannot unmarshal", <<tok.k, goType>>)

\* into a bool: a boolean literal sets it, null leaves it alone
DecodeJSONBool(tok) ==
    CASE tok.k = "null" -> Ret(FALSE, NoErr)
      [] tok.k = "bool" -> Ret(tok.b, NoErr)
      [] OTHER -> Ret(FALSE, TypeErr(tok, "bool"))

\* a number literal stored: r is what strconv made of its text
StoreNumber(tok, r, zero, goType) ==
    IF r.err = NoErr THEN Ret(r.val, NoErr) ELSE Ret(zero, TypeErr(tok, goType))

\* into an int, a fraction dropped
DecodeJSONIntTrunc(tok) ==
    CASE tok.k = "null" -> Ret(0, NoErr)
      [] tok.k = "num" ->
            IF ParseFloat(tok.txt).err = NoErr
               /\ InIntRange(Trunc(ParseFloat(tok.txt).val))
            THEN Ret(Trunc(ParseFloat(tok.txt).val), NoErr)
            ELSE Ret(0, TypeErr(tok, "int"))
      [] OTHER -> Ret(0, TypeErr(tok, "int"))

\* into an int: a number literal that strconv.ParseInt accepts and the int
\* holds
DecodeJSONInt(tok) ==
    CASE tok.k = "null" -> Ret(0, NoErr)
      [] tok.k = "num" -> StoreNumber(tok, Atoi(tok.txt), 0, "int")
      [] OTHER -> Ret(0, TypeErr(tok, "int"))

\* into a float64: a number literal that strconv.ParseFloat accepts
DecodeJSONFloat(tok) ==
    CASE tok.k = "null" -> Ret(FZero, NoErr)
      [] tok.k = "num" -> StoreNumber(tok, ParseFloat(tok.txt), FZero, "float64")
      [] OTHER -> Ret(FZero, TypeErr(tok, "float64"))

\* into a string: a string literal only
DecodeJSONString(tok) ==
    CASE tok.k = "null" -> Ret(<<>>, NoErr)
      [] tok.k = "str" -> Ret(tok.txt, NoErr)
      [] OTHER -> Ret(<<>>, TypeErr(tok, "string"))

\* the text json.Marshal writes for a Go value, or its error:
\* a float64 that is NaN or an infinity is an unsupported value
\* a marshaller that writes every value as a quoted string
JSONMarshalQuoted(v) ==
    IF v.k = "bool" THEN Ret(StrTok(IF v.b THEN <<"t","r","u","e">>
                                    ELSE <<"f","a","l","s","e">>), NoErr)
    ELSE IF v.k = "int" THEN Ret(StrTok(Itoa(v.n)), NoErr)
    ELSE IF ~IsFinite(v.x) THEN Ret(None, Err("json: unsupported value", <<v.x.c>>))
    ELSE Ret(StrTok(FormatFloat(v.x)), NoErr)

JSONMarshal(v) ==
    CASE v.k = "bool" -> Ret(BoolTok(v.b), NoErr)
      [] v.k = "int" -> Ret(NumTok(Itoa(v.n)), NoErr)
      [] v.k = "float64" ->
            IF IsFinite(v.x) THEN Ret(NumTok(FormatFloat(v.x)), NoErr)
            ELSE Ret(None, Err("json: unsupported value", <<v.x.c>>))

--------------------------------------------------------------------------
(* gopkg.in/yaml.v3: node.Decode(&v) into a fresh zero v *)

YAMLNaN == <<".","n","a","n">>
YAMLInf == <<".","i","n","f">>
YAMLNegInf == <<"-",".","i","n","f">>

\* the words yaml.v3 takes for a bool when the target is a bool (YAML 1.1)
YAML11True == { <<"y">>, <<"Y">>, <<"y","e","s">>, <<"Y","e","s">>,
                <<"Y","E","S">>, <<"o","n">>, <<"O","n">>, <<"O","N">> }
YAML11False == { <<"n">>, <<"N">>, <<"n","o">>, <<"N","o">>, <<"N","O">>,
                 <<"o","f","f">>, <<"O","f","f">>, <<"O","F","F">> }

\* a plain number resolved: asInt and asFloat are what strconv.ParseInt
\* and strconv.ParseFloat make of its text
ResolveNumber(txt, asInt, asFloat) ==
    IF txt = YAMLNaN THEN FloatV(NaN)
    ELSE IF txt = YAMLInf THEN FloatV(Inf(FALSE))
    ELSE IF txt = YAMLNegInf THEN FloatV(Inf(TRUE))
    ELSE IF asInt.err = NoErr THEN IntV(asInt.val)
    ELSE IF asFloat.err = NoErr THEN FloatV(asFloat.val)
    ELSE StrTok(txt)

\* the Go value yaml.v3 resolves a scalar node to: an integer literal the
\* int holds is an int, any other number the float parse accepts a float64,
\* and a number it does not accept stays a string
Resolve(tok) ==
    CASE tok.k = "bool" -> BoolV(tok.b)
      [] tok.k = "num" -> ResolveNumber(tok.txt, Atoi(tok.txt), ParseFloat(tok.txt))
      [] OTHER -> tok

DecodeErr(tok, goType) == Err("yaml: cannot unmarshal", <<tok.k, goType>>)

\* the resolved value r of the node stored in a bool: a bool, or one of the
\* YAML 1.1 words; a null node leaves the target alone and reports nothing
ScalarBool(tok, r) ==
    CASE r.k = "null" -> Ret(FALSE, NoErr)
      [] r.k = "bool" -> Ret(r.b, NoErr)
      [] r.k = "str" /\ r.txt \in YAML11True -> Ret(TRUE, NoErr)
      [] r.k = "str" /\ r.txt \in YAML11False -> Ret(FALSE, NoErr)
      [] OTHER -> Ret(FALSE, DecodeErr(tok, "bool"))

\* stored in an int: an int, or a float64 that is integral and that the int
\* holds
ScalarInt(tok, r) ==
    CASE r.k = "null" -> Ret(0, NoErr)
      [] r.k = "int" -> Ret(r.n, NoErr)
      [] r.k = "float64" /\ IsIntegral(r.x) /\ InIntRange(Trunc(r.x)) ->
            Ret(Trunc(r.x), NoErr)
      [] OTHER -> Ret(0, DecodeErr(tok, "int"))

\* stored in a float64: a float64, or an int converted
ScalarFloat(tok, r) ==
    CASE r.k = "null" -> Ret(FZero, NoErr)
      [] r.k = "float64" -> Ret(r.x, NoErr)
      [] r.k = "int" -> Ret(IntToFloat(r.n), NoErr)
      [] OTHER -> Ret(FZero, DecodeErr(tok, "float64"))

DecodeYAMLBool(tok) == ScalarBool(tok, Resolve(tok))

DecodeYAMLInt(tok) == ScalarInt(tok, Resolve(tok))

DecodeYAMLFloat(tok) == ScalarFloat(tok, Resolve(tok))

\* into a string: the text of any scalar node that is not null
DecodeYAMLString(tok) ==
    CASE tok.k = "null" -> Ret(<<>>, NoErr)
      [] tok.k \in {"bool", "num", "str"} -> Ret(tok.txt, NoErr)
      [] OTHER -> Ret(<<>>, DecodeErr(tok, "string"))

\* the node yaml.Marshal writes for the Go value MarshalYAML returns
YAMLEncode(v) ==
    CASE v.k = "bool" -> BoolTok(v.b)
      [] v.k = "int" -> NumTok(Itoa(v.n))
      [] v.k = "float64" ->
            IF v.x = NaN THEN NumTok(YAMLNaN)
            ELSE IF v.x = Inf(FALSE) THEN NumTok(YAMLInf)
            ELSE IF v.x = Inf(TRUE) THEN NumTok(YAMLNegInf)
            ELSE NumTok(FormatFloat(v.x))

--------------------------------------------------------------------------
(* database/sql/driver *)

\* driver.IsValue: the dynamic types a driver.Value may have
DriverValueKinds ==
    {"nil", "int64", "float64", "bool", "[]uint8", "string", "time.Time"}

--------------------------------------------------------------------------
(* the diagnostic sink: slog.Error(msg, key, value, ...) *)

\* one record: its level, its message, and the attributes it carries
\* (attrs names the keys present)
Diag(msg, attrs, value, error, type) ==
    [level |-> "ERROR", msg |-> msg, attrs |-> attrs,
     value |-> value, error |-> error, type |-> type]

\* what a call leaves behind: the wrapper's value, the error it returns and
\* the records it sent to the sink
Outcome(v, e, logs) == [val |-> v, err |-> e, logs |-> logs]

--------------------------------------------------------------------------
(* Bool *)

BoolMarshalJSON(b) == JSONMarshal(BoolV(b))

\* UnmarshalJSON returning the decode error of a token that is no string
BoolUnmarshalJSONStrict(tok) ==
    LET r1 == DecodeJSONBool(tok)
        r2 == DecodeJSONString(tok)
        r3 == parseBool(r2.val)
    IN  IF r1.err = NoErr THEN Outcome(r1.val, NoErr, <<>>)
        ELSE IF r2.err # NoErr THEN Outcome(FALSE, r2.err, <<>>)
        ELSE IF r3.err # NoErr THEN Outcome(FALSE, r3.err, <<>>)
        ELSE Outcome(r3.val, NoErr, <<>>)

BoolUnmarshalJSON(tok) ==
    LET r1 == DecodeJSONBool(tok)
        r2 == DecodeJSONString(tok)
        r3 == parseBool(r2.val)
    IN  IF r1.err = NoErr THEN Outcome(r1.val, NoErr, <<>>)
        ELSE IF r2.err # NoErr
             THEN Outcome(FALSE, NoErr,
                    << Diag("invalid Bool value: not a bool or string",
                            {"error"}, <<>>, r2.err, "") >>)
        ELSE IF r3.err # NoErr
             THEN Outcome(FALSE, NoErr,
                    << Diag("invalid Bool string value",
                            {"value", "error"}, r2.val, r3.err, "") >>)
        ELSE Outcome(r3.val, NoErr, <<>>)

BoolMarshalYAML(b) == Ret(BoolV(b), NoErr)

BoolGetValue(b) == b

BoolValue(b) == Ret(BoolV(BoolGetValue(b)), NoErr)

\* Scan that leaves the receiver's default case to deal with nil
BoolScanNilUnsupported(value) ==
    IF value.k = "bool" THEN Outcome(value.b, NoErr, <<>>)
    ELSE IF value.k = "int64" THEN Outcome(value.n # 0, NoErr, <<>>)
    ELSE IF value.k = "string"
         THEN IF parseBool(value.txt).err # NoErr
              THEN Outcome(FALSE, NoErr,
                     << Diag("invalid Bool value from database",
                             {"value", "error"}, value.txt,
                             parseBool(value.txt).err, "") >>)
              ELSE Outcome(parseBool(value.txt).val, NoErr, <<>>)
    ELSE Outcome(FALSE, Err("unsupported type", <<value.k>>), <<>>)

\* Scan that takes only the integer 1 as true
BoolScanOnlyOne(value) ==
    IF value.k = "nil" THEN Outcome(FALSE, NoErr, <<>>)
    ELSE IF value.k = "bool" THEN Outcome(value.b, NoErr, <<>>)
    ELSE IF value.k = "int64" THEN Outcome(value.n = 1, NoErr, <<>>)
    ELSE IF value.k = "string"
         THEN IF parseBool(value.txt).err # NoErr
              THEN Outcome(FALSE, NoErr,
                     << Diag("invalid Bool value from database",
                             {"value", "error"}, value.txt,
                             parseBool(value.txt).err, "") >>)
              ELSE Outcome(parseBool(value.txt).val, NoErr, <<>>)
    ELSE Outcome(FALSE, NoErr,
           << Diag("unsupported Bool value type from database",
                   {"type"}, <<>>, NoErr, value.k) >>)

BoolScan(value) ==
    IF value.k = "nil" THEN Outcome(FALSE, NoErr, <<>>)
    ELSE IF value.k = "bool" THEN Outcome(value.b, NoErr, <<>>)
    ELSE IF value.k = "int64" THEN Outcome(value.n # 0, NoErr, <<>>)
    ELSE IF value.k = "string"
         THEN IF parseBool(value.txt).err # NoErr
              THEN Outcome(FALSE, NoErr,
                     << Diag("invalid Bool value from database",
                             {"value", "error"}, value.txt,
                             parseBool(value.txt).err, "") >>)
              ELSE Outcome(parseBool(value.txt).val, NoErr, <<>>)
    ELSE Outcome(FALSE, NoErr,
           << Diag("unsupported Bool value type from database",
                   {"type"}, <<>>, NoErr, value.k) >>)

BoolUnmarshalYAML(node) ==
    LET r1 == DecodeYAMLBool(node)
        r2 == DecodeYAMLString(node)
        r3 == parseBool(r2.val)
    IN  IF r1.err = NoErr THEN Outcome(r1.val, NoErr, <<>>)
        ELSE IF r2.err # NoErr
             THEN Outcome(FALSE, NoErr,
                    << Diag("invalid Bool value: not a bool or string",
                            {"error"}, <<>>, r2.err, "") >>)
        ELSE IF r3.err # NoErr
             THEN Outcome(FALSE, NoErr,
                    << Diag("invalid Bool string value",
                            {"value", "error"}, r2.val, r3.err, "") >>)
        ELSE Outcome(r3.val, NoErr, <<>>)

--------------------------------------------------------------------------
(* Int *)

IntMarshalJSON(i) == JSONMarshal(IntV(i))

IntUnmarshalJSON(tok) ==
    LET r1 == DecodeJSONInt(tok)
        r2 == DecodeJSONString(tok)
        r3 == Atoi(r2.val)
    IN  IF r1.err = NoErr THEN Outcome(r1.val, NoErr, <<>>)
        ELSE IF r2.err # NoErr
             THEN Outcome(0, NoErr,
                    << Diag("invalid Int value: not an int or string",
                            {"error"}, <<>>, r2.err, "") >>)
        ELSE IF r3.err # NoErr
             THEN Outcome(0, NoErr,
                    << Diag("invalid Int string value",
                            {"value", "error"}, r2.val, r3.err, "") >>)
        ELSE Outcome(r3.val, NoErr, <<>>)

IntMarshalYAML(i) == Ret(IntV(i), NoErr)

\* GetValue through a float64
IntGetValueViaFloat(i) == Trunc(IntToFloat(i))

IntGetValue(i) == i

IntValue(i) == Ret(IntV(IntGetValue(i)), NoErr)

\* the possible outcomes: the conversion Int(floatVal) is the
\* implementation's choice when the int cannot hold the float
IntScan(value) ==
    IF value.k = "nil" THEN { Outcome(0, NoErr, <<>>) }
    ELSE IF value.k = "int64" THEN { Outcome(value.n, NoErr, <<>>) }
    ELSE IF value.k = "float64"
         THEN { Outcome(n, NoErr, <<>>) : n \in FloatToInt(value.x) }
    ELSE IF value.k = "string"
         THEN IF Atoi(value.txt).err # NoErr
              THEN { Outcome(0, NoErr,
                       << Diag("invalid Int value from database",
                               {"value", "error"}, value.txt,
                               Atoi(value.txt).err, "") >>) }
              ELSE { Outcome(Atoi(value.txt).val, NoErr, <<>>) }
    ELSE { Outcome(0, NoErr,
             << Diag("unsupported Int value type from database",
                     {"type"}, <<>>, NoErr, value.k) >>) }

IntUnmarshalYAML(node) ==
    LET r1 == DecodeYAMLInt(node)
        r2 == DecodeYAMLString(node)
        r3 == Atoi(r2.val)
    IN  IF r1.err = NoErr THEN Outcome(r1.val, NoErr, <<>>)
        ELSE IF r2.err # NoErr
             THEN Outcome(0, NoErr,
                    << Diag("invalid Int value: not an int or string",
                            {"error"}, <<>>, r2.err, "") >>)
        ELSE IF r3.err # NoErr
             THEN Outcome(0, NoErr,
                    << Diag("invalid Int string value",
                            {"value", "error"}, r2.val, r3.err, "") >>)
        ELSE Outcome(r3.val, NoErr, <<>>)

--------------------------------------------------------------------------
(* Float *)

FloatMarshalJSON(f) == JSONMarshal(FloatV(f))

FloatUnmarshalJSON(tok) ==
    LET r1 == DecodeJSONFloat(tok)
        r2 == DecodeJSONString(tok)
        r3 == ParseFloat(r2.val)
    IN  IF r1.err = NoErr THEN Outcome(r1.val, NoErr, <<>>)
        ELSE IF r2.err # NoErr
             THEN Outcome(FZero, NoErr,
                    << Diag("invalid Float value: not a float or string",
                            {"error"}, <<>>, r2.err, "") >>)
        ELSE IF r3.err # NoErr
             THEN Outcome(FZero, NoErr,
                    << Diag("invalid Float string value",
                            {"value", "error"}, r2.val, r3.err, "") >>)
        ELSE Outcome(r3.val, NoErr, <<>>)

FloatMarshalYAML(f) == Ret(FloatV(f), NoErr)

FloatGetValue(f) == f

FloatValue(f) == Ret(FloatV(FloatGetValue(f)), NoErr)

\* Scan that reads the bytes a driver may hand over as text
FloatScanBytes(value) ==
    IF value.k = "nil" THEN Outcome(FZero, NoErr, <<>>)
    ELSE IF value.k = "float64" THEN Outcome(value.x, NoErr, <<>>)
    ELSE IF value.k = "int64" THEN Outcome(IntToFloat(value.n), NoErr, <<>>)
    ELSE IF value.k \in {"string", "[]uint8"}
         THEN IF ParseFloat(value.txt).err # NoErr
              THEN Outcome(FZero, NoErr,
                     << Diag("invalid Float value from database",
                             {"value", "error"}, value.txt,
                             ParseFloat(value.txt).err, "") >>)
              ELSE Outcome(ParseFloat(value.txt).val, NoErr, <<>>)
    ELSE Outcome(FZero, NoErr,
           << Diag("unsupported Float value type from database",
                   {"type"}, <<>>, NoErr, value.k) >>)

FloatScan(value) ==
    IF value.k = "nil" THEN Outcome(FZero, NoErr, <<>>)
    ELSE IF value.k = "float64" THEN Outcome(value.x, NoErr, <<>>)
    ELSE IF value.k = "int64" THEN Outcome(IntToFloat(value.n), NoErr, <<>>)
    ELSE IF value.k = "string"
         THEN IF ParseFloat(value.txt).err # NoErr
              THEN Outcome(FZero, NoErr,
                     << Diag("invalid Float value from database",
                             {"value", "error"}, value.txt,
                             ParseFloat(value.txt).err, "") >>)
              ELSE Outcome(ParseFloat(value.txt).val, NoErr, <<>>)
    ELSE Outcome(FZero, NoErr,
           << Diag("unsupported Float value type from database",
                   {"type"}, <<>>, NoErr, value.k) >>)

FloatUnmarshalYAML(node) ==
    LET r1 == DecodeYAMLFloat(node)
        r2 == DecodeYAMLString(node)
        r3 == ParseFloat(r2.val)
    IN  IF r1.err = NoErr THEN Outcome(r1.val, NoErr, <<>>)
        ELSE IF r2.err # NoErr
             THEN Outcome(FZero, NoErr,
                    << Diag("invalid Float value: not a float or string",
                            {"error"}, <<>>, r2.err, "") >>)
        ELSE IF r3.err # NoErr
             THEN Outcome(FZero, NoErr,
                    << Diag("invalid Float string value",
                            {"value", "error"}, r2.val, r3.err, "") >>)
        ELSE Outcome(r3.val, NoErr, <<>>)

--------------------------------------------------------------------------
(* String: a text that reads any scalar token *)

StringV(txt) == Datum("string", FALSE, 0, FZero, txt)

Zeros(n) == [k \in 1..n |-> "0"]

RECURSIVE StripLeadingZeros(_)
StripLeadingZeros(ds) ==
    IF Len(ds) > 1 /\ Head(ds) = "0" THEN StripLeadingZeros(Tail(ds)) ELSE ds

RECURSIVE StripTrailingZeros(_)
StripTrailingZeros(ds) ==
    IF ds # <<>> /\ ds[Len(ds)] = "0"
    THEN StripTrailingZeros(SubSeq(ds, 1, Len(ds) - 1))
    ELSE ds

\* integer digits i and fraction digits f, already stripped, as a text
JoinDecimal(neg, i, f) ==
    IF f = <<>> THEN (IF neg /\ i # <<"0">> THEN <<"-">> \o i ELSE i)
    ELSE (IF neg THEN <<"-">> ELSE <<>>) \o i \o <<".">> \o f

DecimalText(neg, ip, fp) ==
    JoinDecimal(neg, StripLeadingZeros(IF ip = <<>> THEN <<"0">> ELSE ip),
                StripTrailingZeros(fp))

\* the digits ds scaled by ten to the scale
Shifted(neg, ds, scale) ==
    IF scale >= 0 THEN DecimalText(neg, ds \o Zeros(scale), <<>>)
    ELSE IF 0 - scale >= Len(ds)
         THEN DecimalText(neg, <<>>, Zeros(0 - scale - Len(ds)) \o ds)
    ELSE DecimalText(neg, SubSeq(ds, 1, Len(ds) + scale),
                     SubSeq(ds, Len(ds) + scale + 1, Len(ds)))

CanonMantissa(neg, mant, dot, expo) ==
    IF dot = 0 THEN Shifted(neg, mant, expo)
    ELSE Shifted(neg, SubSeq(mant, 1, dot - 1) \o SubSeq(mant, dot + 1, Len(mant)),
                 expo - (Len(mant) - dot))

CanonSplit(neg, body, ePos) ==
    IF ePos = 0 THEN CanonMantissa(neg, body, FirstIn(body, {"."}), 0)
    ELSE CanonMantissa(neg, SubSeq(body, 1, ePos - 1),
                       FirstIn(SubSeq(body, 1, ePos - 1), {"."}),
                       SignedVal(SubSeq(body, ePos + 1, Len(body))))

\* the canonical decimal text of a number literal: no exponent, no
\* leading zeros, no fraction when it is an integer
CanonicalDecimal(txt) ==
    CanonSplit(IsNeg(txt), Unsigned(txt), FirstIn(Unsigned(txt), {"e", "E"}))

\* Marshal that writes a text that reads as a number as a number
StringMarshalJSONNative(s) ==
    IF ParseFloat(s).err = NoErr THEN Ret(NumTok(s), NoErr) ELSE Ret(StrTok(s), NoErr)

StringMarshalJSON(s) == Ret(StrTok(s), NoErr)

\* Unmarshal that keeps a number as it is written
StringUnmarshalJSONRaw(s, tok) ==
    IF tok.k \in {"str", "num", "bool"} THEN { Outcome(tok.txt, NoErr, <<>>) }
    ELSE { Outcome(t, Err("not a scalar", <<tok.k>>), <<>>) : t \in {s, <<>>} }

\* Unmarshal that falls back to the empty text as the other wrappers do
StringUnmarshalJSONLenient(s, tok) ==
    IF tok.k = "str" THEN { Outcome(tok.txt, NoErr, <<>>) }
    ELSE IF tok.k = "num" THEN { Outcome(CanonicalDecimal(tok.txt), NoErr, <<>>) }
    ELSE IF tok.k = "bool" THEN { Outcome(tok.txt, NoErr, <<>>) }
    ELSE { Outcome(<<>>, NoErr, <<>>) }

\* the possible outcomes on a String holding s: what a failed call leaves
\* in the receiver is not stated, it is s or the empty text
StringUnmarshalJSON(s, tok) ==
    IF tok.k = "str" THEN { Outcome(tok.txt, NoErr, <<>>) }
    ELSE IF tok.k = "num" THEN { Outcome(CanonicalDecimal(tok.txt), NoErr, <<>>) }
    ELSE IF tok.k = "bool" THEN { Outcome(tok.txt, NoErr, <<>>) }
    ELSE { Outcome(t, Err("not a scalar", <<tok.k>>), <<>>) : t \in {s, <<>>} }

StringGetValue(s) == s

\* printValue[T any](v StringValuer[T]) T, for each instantiation of T
printValue(v) ==
    CASE v.k = "bool" -> BoolV(BoolGetValue(v.b))
      [] v.k = "int" -> IntV(IntGetValue(v.n))
      [] v.k = "float64" -> FloatV(FloatGetValue(v.x))
      [] v.k = "string" -> StringV(StringGetValue(v.txt))

--------------------------------------------------------------------------
(* the inputs a host hands over *)

\* texts a string token or a string raw value may carry
Words ==
    { <<>>, <<"t","r","u","e">>, <<" ","T","r","u","e"," ">>, <<"Y","E","S">>,
      <<"y">>, <<"1">>, <<"f","a","l","s","e">>, <<"n","o">>, <<"N">>, <<"0">>,
      <<"o","n">>, <<"O","N">>, <<"o","f","f">>, <<"2">>, <<"1","0">>,
      <<"t","r","u">>, <<"i","n","v","a","l","i","d">>,
      <<"7">>, <<"-","7">>, <<"+","7">>, <<" ","7"," ">>, <<"1","7">>,
      <<"n","o"," ">>, <<"\t","7">>,
      Itoa(MaxInt), Itoa(MaxInt + 1), Itoa(MinInt), Itoa(MinInt - 1),
      <<"2",".","5">>, <<"-","2",".","5">>, <<" ","2",".","5"," ">>,
      <<".","5">>, <<"7",".","0">>, <<"1","e","1">>, <<"1","e","3">>,
      <<"N","a","N">>, <<"I","n","f">>, <<"-","i","n","f">>,
      <<"i","n","f","i","n","i","t","y">> }

\* number literals both document formats write
NumLits ==
    { <<"0">>, <<"1">>, <<"2">>, <<"7">>, <<"-","7">>, <<"1","7">>,
      Itoa(MaxInt), Itoa(MaxInt + 1), Itoa(MinInt), Itoa(MinInt - 1),
      <<"2",".","5">>, <<"-","2",".","5">>, <<"7",".","0">>,
      <<"1","e","1">>, <<"1","e","3">> }

JSONTokens ==
    { NullTok, BoolTok(TRUE), BoolTok(FALSE), ArrTok, ObjTok }
    \cup { NumTok(n) : n \in NumLits } \cup { StrTok(w) : w \in Words }

\* a YAML node may also be one of the float words .nan, .inf, -.inf
YAMLTokens ==
    JSONTokens \cup { NumTok(YAMLNaN), NumTok(YAMLInf), NumTok(YAMLNegInf) }

Floats ==
    { Fin(0), Fin(1), Fin(5), Fin(0 - 5), Fin(14), Fin(0 - 14),
      IntToFloat(MaxInt), IntToFloat(MaxInt + 1), IntToFloat(2 * MinInt),
      Fin(FMaxH), NaN, Inf(FALSE), Inf(TRUE) }

\* MantLimit + 1 is the first integer that is not a float
Ints ==
    { MinInt, 0 - 7, 0 - 1, 0, 1, 2, 7, MantLimit + 1, MaxInt - 1, MaxInt }

RawValues ==
    { RawNil, RawBool(TRUE), RawBool(FALSE), RawTime,
      RawBytes(<<"1">>), RawBytes(<<"7">>), RawInt(7), RawFloat32(Fin(5)) }
    \cup { RawInt64(n) : n \in Ints } \cup { RawFloat64(x) : x \in Floats }
    \cup { RawString(w) : w \in Words }

--------------------------------------------------------------------------
(* one wrapper instance and the calls made on it *)

VARIABLES
    kind,   \* the wrapper's type: "Bool", "Int" or "Float"
    val,    \* its value, the receiver *b, *i or *f
    last,   \* the last call: the method, the value the wrapper held when
            \* it was made, its argument, what it returned
    logs,   \* the records the last call sent to the sink
    origin, \* the kind of input the value was last assigned from
    arg,    \* a string handed to one of the parsing functions
    ret,    \* what the function returned for it
    conc    \* several instances used at once: the instances, the stack
            \* frames of the running calls, the records in the sink

vars == <<kind, val, last, logs, origin, arg, ret, conc>>

Kinds == {"Bool", "Int", "Float"}

Zero(k) ==
    CASE k = "Bool" -> BoolV(FALSE)
      [] k = "Int" -> IntV(0)
      [] k = "Float" -> FloatV(FZero)
      [] k = "String" -> StringV(<<>>)

Call(op, old, in, err, out) ==
    [op |-> op, old |-> old, in |-> in, err |-> err, out |-> out]

NoCall == Call("none", None, None, NoErr, None)

\* var b Bool; var i Int; var f Float
Init ==
    /\ kind \in Kinds
    /\ val = Zero(kind)
    /\ last = NoCall
    /\ logs = <<>>
    /\ origin = "none"
    /\ arg = <<>>
    /\ ret = Ret(FALSE, NoErr)
    /\ conc = <<>>

\* a call that assigns the receiver: Unmarshal and Scan
Assign(op, in, v, o) ==
    /\ val' = v
    /\ last' = Call(op, val, in, o.err, None)
    /\ logs' = o.logs
    /\ origin' = in.k
    /\ UNCHANGED <<kind, arg, ret, conc>>

\* a call on a value receiver: Marshal, Value and GetValue
Read(op, r) ==
    /\ last' = Call(op, val, None, r.err, r.val)
    /\ logs' = <<>>
    /\ UNCHANGED <<kind, val, origin, arg, ret, conc>>

UnmarshalJSON ==
    \E tok \in JSONTokens :
        \/ /\ kind = "Bool"
           /\ \E o \in { BoolUnmarshalJSON(tok) } :
                  Assign("UnmarshalJSON", tok, BoolV(o.val), o)
        \/ /\ kind = "Int"
           /\ \E o \in { IntUnmarshalJSON(tok) } :
                  Assign("UnmarshalJSON", tok, IntV(o.val), o)
        \/ /\ kind = "Float"
           /\ \E o \in { FloatUnmarshalJSON(tok) } :
                  Assign("UnmarshalJSON", tok, FloatV(o.val), o)

UnmarshalYAML ==
    \E node \in YAMLTokens :
        \/ /\ kind = "Bool"
           /\ \E o \in { BoolUnmarshalYAML(node) } :
                  Assign("UnmarshalYAML", node, BoolV(o.val), o)
        \/ /\ kind = "Int"
           /\ \E o \in { IntUnmarshalYAML(node) } :
                  Assign("UnmarshalYAML", node, IntV(o.val), o)
        \/ /\ kind = "Float"
           /\ \E o \in { FloatUnmarshalYAML(node) } :
                  Assign("UnmarshalYAML", node, FloatV(o.val), o)

Scan ==
    \E value \in RawValues :
        \/ /\ kind = "Bool"
           /\ \E o \in { BoolScan(value) } : Assign("Scan", value, BoolV(o.val), o)
        \/ /\ kind = "Int"
           /\ \E o \in IntScan(value) : Assign("Scan", value, IntV(o.val), o)
        \/ /\ kind = "Float"
           /\ \E o \in { FloatScan(value) } : Assign("Scan", value, FloatV(o.val), o)

MarshalJSON ==
    \/ kind = "Bool" /\ Read("MarshalJSON", BoolMarshalJSON(val.b))
    \/ kind = "Int" /\ Read("MarshalJSON", IntMarshalJSON(val.n))
    \/ kind = "Float" /\ Read("MarshalJSON", FloatMarshalJSON(val.x))

MarshalYAML ==
    \/ kind = "Bool" /\ Read("MarshalYAML", BoolMarshalYAML(val.b))
    \/ kind = "Int" /\ Read("MarshalYAML", IntMarshalYAML(val.n))
    \/ kind = "Float" /\ Read("MarshalYAML", FloatMarshalYAML(val.x))

Value ==
    \/ kind = "Bool" /\ Read("Value", BoolValue(val.b))
    \/ kind = "Int" /\ Read("Value", IntValue(val.n))
    \/ kind = "Float" /\ Read("Value", FloatValue(val.x))

GetValue ==
    \/ kind = "Bool" /\ Read("GetValue", Ret(BoolV(BoolGetValue(val.b)), NoErr))
    \/ kind = "Int" /\ Read("GetValue", Ret(IntV(IntGetValue(val.n)), NoErr))
    \/ kind = "Float" /\ Read("GetValue", Ret(FloatV(FloatGetValue(val.x)), NoErr))

\* the value a Value call just returned, handed to Scan as it is
ScanValue ==
    /\ last.op = "Value"
    /\ last.err = NoErr
    /\ \E value \in { last.out } :
        \/ /\ kind = "Bool"
           /\ \E o \in { BoolScan(value) } : Assign("Scan", value, BoolV(o.val), o)
        \/ /\ kind = "Int"
           /\ \E o \in IntScan(value) : Assign("Scan", value, IntV(o.val), o)
        \/ /\ kind = "Float"
           /\ \E o \in { FloatScan(value) } : Assign("Scan", value, FloatV(o.val), o)

Next ==
    \/ UnmarshalJSON
    \/ UnmarshalYAML
    \/ Scan
    \/ ScanValue
    \/ MarshalJSON
    \/ MarshalYAML
    \/ Value
    \/ GetValue

Spec == Init /\ [][Next]_vars

--------------------------------------------------------------------------
(* the four wrappers: Bool, Int, Float and String *)

InitAll ==
    /\ kind \in Kinds \cup {"String"}
    /\ val = Zero(kind)
    /\ last = NoCall
    /\ logs = <<>>
    /\ origin = "none"
    /\ arg = <<>>
    /\ ret = Ret(FALSE, NoErr)
    /\ conc = <<>>

StringDeserialize ==
    /\ kind = "String"
    /\ \E tok \in JSONTokens : \E o \in StringUnmarshalJSON(val.txt, tok) :
           Assign("UnmarshalJSON", tok, StringV(o.val), o)

StringSerialize ==
    /\ kind = "String"
    /\ Read("MarshalJSON", StringMarshalJSON(val.txt))

StringGet ==
    /\ kind = "String"
    /\ Read("GetValue", Ret(StringV(StringGetValue(val.txt)), NoErr))

\* GetValue called through the interface StringValuer[T]
GenericGet == Read("printValue", Ret(printValue(val), NoErr))

NextAll ==
    \/ Next
    \/ StringDeserialize
    \/ StringSerialize
    \/ StringGet
    \/ GenericGet

SpecAll == InitAll /\ [][NextAll]_vars

--------------------------------------------------------------------------
(* several callers, each with a wrapper instance of its own.  A call
   first decodes into the local variables of its stack frame, then assigns
   the receiver, sends its records to the sink and returns. *)

Instances == 1..NumInst

\* what a method returns and leaves behind: the receiver's new value, the
\* error, the output and the records sent
Effect(v, e, out, ls) == [val |-> v, err |-> e, out |-> out, logs |-> ls]

\* the possible effects of the method op with input in on a wrapper of kind
\* k holding v
Invoke(k, v, op, in) ==
    CASE op = "UnmarshalJSON" ->
            { Effect(IF k = "Bool" THEN BoolV(o.val)
                     ELSE IF k = "Int" THEN IntV(o.val) ELSE FloatV(o.val),
                     o.err, None, o.logs) :
                o \in { IF k = "Bool" THEN BoolUnmarshalJSON(in)
                        ELSE IF k = "Int" THEN IntUnmarshalJSON(in)
                        ELSE FloatUnmarshalJSON(in) } }
      [] op = "UnmarshalYAML" ->
            { Effect(IF k = "Bool" THEN BoolV(o.val)
                     ELSE IF k = "Int" THEN IntV(o.val) ELSE FloatV(o.val),
                     o.err, None, o.logs) :
                o \in { IF k = "Bool" THEN BoolUnmarshalYAML(in)
                        ELSE IF k = "Int" THEN IntUnmarshalYAML(in)
                        ELSE FloatUnmarshalYAML(in) } }
      [] op = "Scan" ->
            { Effect(IF k = "Bool" THEN BoolV(o.val)
                     ELSE IF k = "Int" THEN IntV(o.val) ELSE FloatV(o.val),
                     o.err, None, o.logs) :
                o \in IF k = "Bool" THEN { BoolScan(in) }
                      ELSE IF k = "Int" THEN IntScan(in)
                      ELSE { FloatScan(in) } }
      [] op = "MarshalJSON" ->
            { Effect(v, r.err, r.val, <<>>) :
                r \in { IF k = "Bool" THEN BoolMarshalJSON(v.b)
                        ELSE IF k = "Int" THEN IntMarshalJSON(v.n)
                        ELSE FloatMarshalJSON(v.x) } }

\* the calls the callers make
ConcCalls ==
    { [op |-> "UnmarshalJSON", in |-> t] :
        t \in { NumTok(<<"7">>), StrTok(<<"t","r","u","e">>) } }
    \cup { [op |-> "UnmarshalYAML", in |-> StrTok(<<"i","n","v","a","l","i","d">>)] }
    \cup { [op |-> "Scan", in |-> r] :
             r \in { RawInt64(7), RawString(<<"t","r","u","e">>) } }
    \cup { [op |-> "MarshalJSON", in |-> None] }

\* one package-level variable that every call decodes into
SharedFrame(i) == 1

\* the stack frame the call on instance i decodes into: its own
Local(i) == i

NoFrame == Effect(None, NoErr, None, <<>>)

Idle(k) ==
    [kind |-> k, val |-> Zero(k), pc |-> "idle", op |-> "none", in |-> None,
     err |-> NoErr, out |-> None]

InitConc ==
    /\ kind = "Bool"
    /\ val = Zero(kind)
    /\ last = NoCall
    /\ logs = <<>>
    /\ origin = "none"
    /\ arg = <<>>
    /\ ret = Ret(FALSE, NoErr)
    /\ \E ks \in [Instances -> Kinds] :
           conc = [inst |-> [i \in Instances |-> Idle(ks[i])],
                   frame |-> [i \in Instances |-> NoFrame],
                   sink |-> {}]

\* instance i's method is entered and decodes its input
Begin(i) ==
    /\ conc.inst[i].pc = "idle"
    /\ \E c \in ConcCalls :
       \E e \in Invoke(conc.inst[i].kind, conc.inst[i].val, c.op, c.in) :
           conc' = [conc EXCEPT !.inst[i].pc = "running",
                                !.inst[i].op = c.op,
                                !.inst[i].in = c.in,
                                !.frame[Local(i)] = e]
    /\ UNCHANGED <<kind, val, last, logs, origin, arg, ret>>

\* it assigns the receiver, sends its records and returns
Finish(i) ==
    /\ conc.inst[i].pc = "running"
    /\ conc' = [conc EXCEPT !.inst[i].pc = "done",
                            !.inst[i].val = conc.frame[Local(i)].val,
                            !.inst[i].err = conc.frame[Local(i)].err,
                            !.inst[i].out = conc.frame[Local(i)].out,
                            !.sink = @ \cup { [inst |-> i, rec |-> conc.frame[Local(i)].logs[k]] :
                                                k \in 1..Len(conc.frame[Local(i)].logs) }]
    /\ UNCHANGED <<kind, val, last, logs, origin, arg, ret>>

NextConc == \E i \in Instances : Begin(i) \/ Finish(i)

SpecConc == InitConc /\ [][NextConc]_vars

--------------------------------------------------------------------------
(* two wrapper instances of one kind, each given any sequence of Unmarshal
   and Scan calls *)

Pair == {1, 2}

\* the calls made on them: every branch of the three methods
HistCalls ==
    { [op |-> "UnmarshalJSON", in |-> t] :
        t \in { NullTok, BoolTok(TRUE), NumTok(<<"7">>), NumTok(<<"2",".","5">>),
                StrTok(<<"1">>), StrTok(<<"i","n","v","a","l","i","d">>),
                ArrTok } }
    \cup { [op |-> "UnmarshalYAML", in |-> t] :
             t \in { NullTok, NumTok(<<"7">>), StrTok(<<"o","n">>), ObjTok } }
    \cup { [op |-> "Scan", in |-> r] :
             r \in { RawNil, RawBool(TRUE), RawInt64(7), RawFloat64(Fin(5)),
                     RawFloat64(IntToFloat(MaxInt + 1)),
                     RawString(<<"1">>), RawString(<<"t","r","u">>), RawTime } }

\* the floats among them that the int cannot hold
Unrepresentable == { IntToFloat(MaxInt + 1) }

\* a build answers each of them with one int, the same at every call;
\* the effect e is one this build produces for the call c
BuiltBy(build, k, c, e) ==
    (k = "Int" /\ c.op = "Scan" /\ c.in.k = "float64"
        /\ c.in.x \in Unrepresentable) => e.val = IntV(build[c.in.x])

\* a fallback branch that returns without assigning the receiver
KeptOnFallback(v, e) == IF e.logs # <<>> THEN v ELSE e.val

\* the receiver when the call returns: every branch assigns it
Assigned(v, e) == e.val

InitHist ==
    /\ kind \in Kinds
    /\ val = Zero(kind)
    /\ last = NoCall
    /\ logs = <<>>
    /\ origin = "none"
    /\ arg = <<>>
    /\ ret = Ret(FALSE, NoErr)
    /\ \E build \in [Unrepresentable -> ImplDefInts] :
           conc = [inst |-> [i \in Pair |->
                               [val |-> Zero(kind), old |-> Zero(kind),
                                op |-> "none", in |-> None]],
                   build |-> build]

\* one more call on instance i
CallOn(i) ==
    /\ \E c \in HistCalls :
       \E e \in Invoke(kind, conc.inst[i].val, c.op, c.in) :
           /\ BuiltBy(conc.build, kind, c, e)
           /\ conc' = [conc EXCEPT
                         !.inst[i] = [val |-> Assigned(conc.inst[i].val, e),
                                      old |-> conc.inst[i].val,
                                      op |-> c.op,
                                      in |-> c.in]]
    /\ UNCHANGED <<kind, val, last, logs, origin, arg, ret>>

NextHist == \E i \in Pair : CallOn(i)

SpecHist == InitHist /\ [][NextHist]_vars

--------------------------------------------------------------------------
(* parseBool on its own: every short string, and the words in every
   casing and padding *)

Alphabet ==
    {"t", "r", "u", "e", "y", "s", "n", "o", "T", "Y", "N", "O",
     "0", "1", "2", " ", "\t"}

RECURSIVE StringsUpTo(_)
StringsUpTo(n) ==
    IF n = 0 THEN { <<>> }
    ELSE StringsUpTo(n - 1)
         \cup { Append(s, c) : s \in { t \in StringsUpTo(n - 1) : Len(t) = n - 1 },
                               c \in Alphabet }

BaseWords ==
    TrueWords \cup FalseWords
    \cup { <<"o","n">>, <<"o","f","f">>, <<"t">>, <<"f">>, <<"t","r","u">>,
           <<"t","r","u","e","e">>, <<"y","e","s","s">>, <<"n","o","n","e">>,
           <<"t","r"," ","u","e">>, <<"2">>, <<"1","0">>, <<"0","1">>,
           <<"0","0">>, <<"1",".","0">>, <<"-","1">> }

ToUpperCh(c) ==
    IF \E k \in 1..Len(Lower) : Lower[k] = c
    THEN Upper[CHOOSE k \in 1..Len(Lower) : Lower[k] = c]
    ELSE c

ToUpper(s) == [k \in 1..Len(s) |-> ToUpperCh(s[k])]

Capital(s) == [k \in 1..Len(s) |-> IF k = 1 THEN ToUpperCh(s[k]) ELSE s[k]]

Pads == { <<>>, <<" ">>, <<"\t">>, <<"\n">>, <<" ","\r"," ">> }

ParseInputs ==
    StringsUpTo(MaxLen)
    \cup { l \o c \o r : l \in Pads, r \in Pads,
           c \in UNION { {w, ToUpper(w), Capital(w)} : w \in BaseWords } }

InitParse ==
    /\ kind = "Bool"
    /\ val = Zero(kind)
    /\ last = NoCall
    /\ logs = <<>>
    /\ origin = "none"
    /\ arg \in ParseInputs
    /\ ret = Ret(FALSE, NoErr)
    /\ conc = <<>>

ParseBool ==
    /\ last.op = "none"
    /\ ret' = parseBool(arg)
    /\ last' = Call("parseBool", val, RawString(arg), NoErr, None)
    /\ UNCHANGED <<kind, val, logs, origin, arg, conc>>

NextParse == ParseBool

SpecParse == InitParse /\ [][NextParse]_vars

--------------------------------------------------------------------------
(* the properties *)

Deserializers == {"UnmarshalJSON", "UnmarshalYAML"}

Serializers == {"MarshalJSON", "MarshalYAML"}

\* the token kind a wrapper kind is natively written as
NativeTok(k) == IF k = "Bool" THEN "bool" ELSE "num"

\* the kind-specific parse of a text fails
ParseFails(k, txt) ==
    CASE k = "Bool" -> parseBool(txt).err # NoErr
      [] k = "Int" -> Atoi(txt).err # NoErr
      [] k = "Float" -> ParseFloat(txt).err # NoErr

\* the token the last Marshal call put in the document: MarshalJSON
\* returns it, MarshalYAML returns the value the encoder writes
Emitted == IF last.op = "MarshalYAML" THEN YAMLEncode(last.out) ELSE last.out

\* a fresh wrapper of kind k after Unmarshal of tok in the format of the
\* Marshal call op
ReadBack(k, op, tok) ==
    CASE k = "Bool" ->
            LET o == IF op = "MarshalJSON" THEN BoolUnmarshalJSON(tok)
                     ELSE BoolUnmarshalYAML(tok)
            IN  [val |-> BoolV(o.val), err |-> o.err]
      [] k = "Int" ->
            LET o == IF op = "MarshalJSON" THEN IntUnmarshalJSON(tok)
                     ELSE IntUnmarshalYAML(tok)
            IN  [val |-> IntV(o.val), err |-> o.err]
      [] k = "Float" ->
            LET o == IF op = "MarshalJSON" THEN FloatUnmarshalJSON(tok)
                     ELSE FloatUnmarshalYAML(tok)
            IN  [val |-> FloatV(o.val), err |-> o.err]

\* C1: after every UnmarshalJSON and every UnmarshalYAML call on a Bool,
\* an Int or a Float, whatever the token was, the call returned no error.
DeserializeNeverFails == last.op \in Deserializers => last.err = NoErr

\* a token of a wrong kind and a string that does not parse were both
\* answered with no error
DeserializeNeverFailsWitness ==
    /\ last.op \in Deserializers
    /\ last.in.k \in {"arr", "obj", "str"}
    /\ Len(logs) > 0
    /\ last.err = NoErr

\* C2: after a Deserialize call given a string token whose text fails the
\* kind's parse, the wrapper holds the kind's zero value and the call
\* returned no error.
FallbackToZero ==
    (last.op \in Deserializers /\ last.in.k = "str"
        /\ ParseFails(kind, last.in.txt))
    => (val = Zero(kind) /\ last.err = NoErr)

\* C3: with n the argument trimmed and lower-cased, parseBool returned
\* true and no error iff n is true, yes, y or 1; false and no error iff n
\* is false, no, n or 0; and for every other n an error that carries n.
ParseBoolGrammar ==
    last.op = "parseBool" =>
        LET n == ToLower(TrimSpace(arg))
            truthy == n \in { <<"t","r","u","e">>, <<"y","e","s">>, <<"y">>, <<"1">> }
            falsy == n \in { <<"f","a","l","s","e">>, <<"n","o">>, <<"n">>, <<"0">> }
        IN  /\ (ret.err = NoErr /\ ret.val = TRUE) <=> truthy
            /\ (ret.err = NoErr /\ ret.val = FALSE) <=> falsy
            /\ ~(truthy \/ falsy) => (ret.err # NoErr /\ ret.err.text = n)

\* a padded upper-case word was accepted
ParseBoolGrammarWitness ==
    /\ last.op = "parseBool"
    /\ arg = <<" ", "\r", " ", "Y", "E", "S", "\n">>
    /\ ret = Ret(TRUE, NoErr)

\* C4: after a Serialize call, the call succeeded and a fresh wrapper of
\* the same kind given its output holds the same value, with success.
RoundTrip ==
    last.op \in Serializers =>
        /\ last.err = NoErr
        /\ ReadBack(kind, last.op, Emitted) = [val |-> val, err |-> NoErr]

\* C5: the token a successful Serialize call emits is of the wrapper's
\* native token kind, never a string, and its text denotes the value.
KindPreserving ==
    (last.op \in Serializers /\ last.err = NoErr) =>
        /\ Emitted.k = NativeTok(kind)
        /\ CASE kind = "Bool" ->
                    Emitted.txt = (IF val.b THEN <<"t","r","u","e">>
                                   ELSE <<"f","a","l","s","e">>)
              [] kind = "Int" ->
                    Atoi(Emitted.txt) = Ret(val.n, NoErr)
              [] kind = "Float" ->
                    \/ ParseFloat(Emitted.txt) = Ret(val.x, NoErr)
                    \/ val.x = NaN /\ Emitted.txt = <<".","n","a","n">>
                    \/ val.x = Inf(FALSE) /\ Emitted.txt = <<".","i","n","f">>
                    \/ val.x = Inf(TRUE) /\ Emitted.txt = <<"-",".","i","n","f">>

\* a value read from a string token was written as a number
KindPreservingWitness ==
    /\ last.op = "MarshalJSON"
    /\ origin = "str"
    /\ kind = "Float"
    /\ val = FloatV(Fin(5))
    /\ last.out = NumTok(<<"2", ".", "5">>)

\* C6: every Serialize call returned no error.
SerializeSucceeds == last.op \in Serializers => last.err = NoErr

\* the token is neither of the wrapper's native kind nor a string
WrongKind(k, tok) == tok.k \notin {NativeTok(k), "str"}

\* C7: after a Deserialize call given a token that is neither of the native
\* kind nor a string, the wrapper holds the zero value, a diagnostic was
\* emitted, and the call returned no error.
WrongKindZeroed ==
    (last.op \in Deserializers /\ WrongKind(kind, last.in))
    => (val = Zero(kind) /\ Len(logs) > 0 /\ last.err = NoErr)

\* C8: after Scan(nil) the wrapper holds the zero value and the call
\* returned no error.
ScanNull ==
    (last.op = "Scan" /\ last.in = RawNil)
    => (val = Zero(kind) /\ last.err = NoErr)

\* Scan(nil) on a wrapper that held another value
ScanNullWitness ==
    /\ last.op = "Scan"
    /\ last.in = RawNil
    /\ last.old # Zero(kind)
    /\ val = Zero(kind)

\* n is x with its fraction dropped
TruncatedTo(n, x) ==
    /\ IsFinite(x)
    /\ Abs(2 * n) <= Abs(x.h)
    /\ Abs(x.h) < Abs(2 * n) + 2
    /\ n * x.h >= 0

\* h halves is a float: a significand of MantBits bits at an exponent
Representable(h) ==
    \E e \in 0..ExpMax : \E m \in 0..(MantLimit - 1) : Abs(h) = m * Pow(2, e)

\* no float is nearer to the integer n than x
NearestTo(x, n) ==
    /\ IsFinite(x)
    /\ \A h \in (2 * n - Abs(x.h - 2 * n) + 1)..(2 * n + Abs(x.h - 2 * n) - 1) :
            ~Representable(h)

\* C9 as stated: Int Scan of any float x gives x truncated toward zero,
\* Float Scan of any int64 n gives the float equal to n, both with no
\* error and no diagnostic.
CoercionExact ==
    last.op = "Scan" =>
        /\ (kind = "Int" /\ last.in.k = "float64") =>
                /\ TruncatedTo(val.n, last.in.x)
                /\ last.err = NoErr /\ logs = <<>>
        /\ (kind = "Float" /\ last.in.k = "int64") =>
                /\ val.x = Fin(2 * last.in.n)
                /\ last.err = NoErr /\ logs = <<>>

\* C9: Int Scan of a finite float x whose integral part fits the Int gives
\* x truncated toward zero; Float Scan of an int64 n gives the float
\* nearest to n, which is n itself when n has no more than MantBits
\* significant bits; both with no error and no diagnostic.
CoercionInRange ==
    last.op = "Scan" =>
        /\ (kind = "Int" /\ last.in.k = "float64") =>
                /\ (IsFinite(last.in.x)
                        /\ \E n \in MinInt..MaxInt : TruncatedTo(n, last.in.x))
                    => TruncatedTo(val.n, last.in.x)
                /\ last.err = NoErr /\ logs = <<>>
        /\ (kind = "Float" /\ last.in.k = "int64") =>
                /\ NearestTo(val.x, last.in.n)
                /\ Abs(last.in.n) <= MantLimit => val.x = Fin(2 * last.in.n)
                /\ last.err = NoErr /\ logs = <<>>

\* a negative fraction was truncated toward zero
CoercionInRangeWitness ==
    /\ last.op = "Scan"
    /\ kind = "Int"
    /\ last.in = RawFloat64(Fin(0 - 5))
    /\ val = IntV(0 - 2)

\* the raw kinds Scan has a case for
Accepted(k) ==
    CASE k = "Bool" -> {"nil", "bool", "int64", "string"}
      [] k = "Int" -> {"nil", "int64", "float64", "string"}
      [] k = "Float" -> {"nil", "float64", "int64", "string"}

\* C10: after Scan of a raw value of a kind that is not accepted, or of a
\* string that fails the kind's parse, the wrapper holds the zero value,
\* one diagnostic of level ERROR was emitted, and the call returned no
\* error.
ScanNeverFails ==
    (/\ last.op = "Scan"
     /\ \/ last.in.k \notin Accepted(kind)
        \/ last.in.k = "string" /\ ParseFails(kind, last.in.txt))
    => /\ val = Zero(kind)
       /\ Len(logs) = 1
       /\ logs[1].level = "ERROR"
       /\ last.err = NoErr

\* bytes handed to a wrapper that held another value
ScanNeverFailsWitness ==
    /\ last.op = "Scan"
    /\ last.in.k = "[]uint8"
    /\ last.old # Zero(kind)
    /\ val = Zero(kind)
    /\ Len(logs) = 1

\* C11: every Value call returned no error and a value that equals what
\* GetValue returns and is of a type the database driver accepts as a
\* column value.
ValueTransportable ==
    last.op = "Value" =>
        /\ last.err = NoErr
        /\ last.out.b = val.b /\ last.out.n = val.n /\ last.out.x = val.x
        /\ last.out.k \in DriverValueKinds

\* C12: after Scan of a string s, the call returned no error and the
\* wrapper holds the value a fresh wrapper of the same kind holds after
\* Deserialize, in either format, of a string token with content s, which
\* returns no error either.
StringPathsAgree ==
    (last.op = "Scan" /\ last.in.k = "string") =>
        /\ last.err = NoErr
        /\ \A f \in Serializers :
               ReadBack(kind, f, StrTok(last.in.txt)) = [val |-> val, err |-> NoErr]

\* C13: every record a Deserialize or Scan call sent to the sink has level
\* ERROR, carries the attempted raw value as an attribute, and carries a
\* cause: its message, which is never empty.
DiagnosticContent ==
    (last.op \in Deserializers \cup {"Scan"}) =>
        \A k \in 1..Len(logs) :
            /\ logs[k].level = "ERROR"
            /\ "value" \in logs[k].attrs
            /\ logs[k].msg # ""

\* a text in canonical decimal form: no exponent, no plus sign, no leading
\* zero before another digit, and a fraction only if it ends in a non-zero
\* digit
IsCanonical(t) ==
    /\ t # <<>>
    /\ \A k \in 1..Len(t) : t[k] \notin {"e", "E", "+"}
    /\ (\E k \in 1..Len(t) : t[k] = ".") => t[Len(t)] \notin {"0", "."}
    /\ (Len(Unsigned(t)) > 1 /\ Unsigned(t)[1] = "0") => Unsigned(t)[2] = "."

\* the texts t and u denote the same number
SameNumber(t, u) ==
    /\ ParseFloat(t).val = ParseFloat(u).val
    /\ AllDigits(Unsigned(u)) => t = Itoa(SignedVal(u))

\* C14: after String Deserialize of a string token the String holds its
\* content; of a number token, the canonical decimal text of the number;
\* of a boolean token, true or false; and the call returned no error.
StringCoercion ==
    (kind = "String" /\ last.op = "UnmarshalJSON"
        /\ last.in.k \in {"str", "num", "bool"}) =>
        /\ last.err = NoErr
        /\ last.in.k = "str" => val.txt = last.in.txt
        /\ last.in.k = "num" =>
                IsCanonical(val.txt) /\ SameNumber(val.txt, last.in.txt)
        /\ last.in.k = "bool" =>
                val.txt = (IF last.in.b THEN <<"t","r","u","e">>
                           ELSE <<"f","a","l","s","e">>)

\* the number 7.0 was stored as the text 7
StringCoercionWitness ==
    /\ kind = "String"
    /\ last.op = "UnmarshalJSON"
    /\ last.in = NumTok(<<"7", ".", "0">>)
    /\ val = StringV(<<"7">>)
    /\ last.err = NoErr

\* C15: String Deserialize of a token that is no string, number or boolean
\* returned an error, and no Deserialize call on a Bool, an Int or a Float
\* ever did.
StringTerminalFailure ==
    last.op \in Deserializers =>
        /\ (kind = "String" /\ last.in.k \notin {"str", "num", "bool"})
                => last.err # NoErr
        /\ last.err # NoErr => kind = "String"

\* an array handed to a String was answered with an error
StringTerminalFailureWitness ==
    /\ kind = "String"
    /\ last.op = "UnmarshalJSON"
    /\ last.in = ArrTok
    /\ last.err # NoErr

\* C16: String Serialize returned no error and a string token that carries
\* the held text, whatever token the text was read from.
StringQuoted ==
    (kind = "String" /\ last.op = "MarshalJSON") =>
        /\ last.err = NoErr
        /\ last.out.k = "str"
        /\ last.out.txt = val.txt

\* a text read from the number 1 was written as the string "1"
StringQuotedWitness ==
    /\ kind = "String"
    /\ last.op = "MarshalJSON"
    /\ origin = "num"
    /\ val = StringV(<<"1">>)
    /\ last.out = StrTok(<<"1">>)

\* the Go type GetValue returns for a wrapper kind
NativeType(k) ==
    CASE k = "Bool" -> "bool"
      [] k = "Int" -> "int"
      [] k = "Float" -> "float64"
      [] k = "String" -> "string"

\* C17: GetValue, called on the wrapper or through StringValuer[T],
\* returned the stored primitive as a value of the wrapper's native type
\* and left the wrapper as it was.
GetValueExact ==
    last.op \in {"GetValue", "printValue"} =>
        /\ last.err = NoErr
        /\ last.out.k = NativeType(kind)
        /\ last.out.b = val.b /\ last.out.n = val.n
        /\ last.out.x = val.x /\ last.out.txt = val.txt
        /\ val = last.old

\* an Int that no float64 holds, read through the interface
GetValueExactWitness ==
    /\ last.op = "printValue"
    /\ kind = "Int"
    /\ val = IntV(MantLimit + 1)
    /\ last.out = IntV(MantLimit + 1)

\* the records instance i's call sent to the sink
SentBy(i) == { r.rec : r \in { s \in conc.sink : s.inst = i } }

\* C18: with every caller on an instance of its own, in every
\* interleaving an instance no call has written yet holds its zero value,
\* and an instance whose call has returned holds the value, the result and
\* the records that call produces when it runs alone.
ConcurrentIsolated ==
    \A i \in Instances :
        LET w == conc.inst[i]
        IN  /\ w.pc \in {"idle", "running"} =>
                    w.val = Zero(w.kind) /\ SentBy(i) = {}
            /\ w.pc = "done" =>
                    \E e \in Invoke(w.kind, Zero(w.kind), w.op, w.in) :
                        /\ w.val = e.val
                        /\ w.err = e.err
                        /\ w.out = e.out
                        /\ SentBy(i) = { e.logs[k] : k \in 1..Len(e.logs) }

\* two calls overlapped and each instance holds its own call's value
ConcurrentIsolatedWitness ==
    /\ conc.inst[1].pc = "done"
    /\ conc.inst[1].kind = "Int"
    /\ conc.inst[1].op = "Scan"
    /\ conc.inst[1].val = IntV(7)
    /\ conc.inst[2].pc = "running"
    /\ conc.inst[2].kind = "Bool"
    /\ conc.frame[2].val = BoolV(TRUE)

\* the text is a decimal numeral, signed or not
IsNumeral(t) == Unsigned(t) # <<>> /\ AllDigits(Unsigned(t))

\* C19: after Bool Scan of an int64 n the Bool is true iff n is not 0,
\* with no error and no diagnostic; after Bool Scan of a string that is a
\* numeral other than 1 and 0 the Bool is false and a diagnostic was
\* emitted.
BoolFromInteger ==
    (last.op = "Scan" /\ kind = "Bool") =>
        /\ last.in.k = "int64" =>
                /\ val.b = (last.in.n # 0)
                /\ last.err = NoErr
                /\ logs = <<>>
        /\ (last.in.k = "string" /\ IsNumeral(TrimSpace(last.in.txt))
                /\ TrimSpace(last.in.txt) \notin { <<"1">>, <<"0">> }) =>
                /\ val.b = FALSE
                /\ last.err = NoErr
                /\ Len(logs) = 1

\* a negative integer made the Bool true
BoolFromIntegerWitness ==
    /\ last.op = "Scan"
    /\ kind = "Bool"
    /\ last.in = RawInt64(0 - 7)
    /\ val = BoolV(TRUE)
    /\ logs = <<>>

\* the number read has a fractional part that is not zero
HasFraction(r) == r.err = NoErr /\ IsFinite(r.val) /\ r.val.h % 2 # 0

\* C20: after Int Deserialize of a number token with a non-zero fraction
\* the Int is 0, a diagnostic was emitted and the call returned no error;
\* after Int Scan of a float64 with a non-zero fraction that the int can
\* hold the Int is the number truncated, with no diagnostic.
IntFractionRejected ==
    kind = "Int" =>
        /\ (last.op \in Deserializers /\ last.in.k = "num"
                /\ HasFraction(ParseFloat(last.in.txt))) =>
                /\ val = IntV(0)
                /\ Len(logs) = 1
                /\ last.err = NoErr
        /\ (last.op = "Scan" /\ last.in.k = "float64"
                /\ HasFraction(Ret(last.in.x, NoErr))
                /\ \E n \in MinInt..MaxInt : TruncatedTo(n, last.in.x)) =>
                /\ TruncatedTo(val.n, last.in.x)
                /\ logs = <<>>
                /\ last.err = NoErr

\* the number 2.5 put an Int that held another value back to 0
IntFractionRejectedWitness ==
    /\ kind = "Int"
    /\ last.op \in Deserializers
    /\ last.in = NumTok(<<"2", ".", "5">>)
    /\ last.old # IntV(0)
    /\ val = IntV(0)
    /\ Len(logs) = 1

\* the text has white space at one of its ends
Padded(t) == t # TrimSpace(t)

\* the call handed the wrapper a string: a string token or a string raw
\* value
GivenString ==
    \/ last.op \in Deserializers /\ last.in.k = "str"
    \/ last.op = "Scan" /\ last.in.k = "string"

\* C21: after a Deserialize or Scan call given a string with white space
\* at an end, an Int and a Float hold the zero value and one diagnostic was
\* emitted, whatever the text between the spaces is; a Bool given such a
\* string whose trimmed, lower-cased text is a boolean word holds the
\* word's value and no diagnostic was emitted.
OnlyBoolTrims ==
    (GivenString /\ Padded(last.in.txt)) =>
        /\ last.err = NoErr
        /\ kind \in {"Int", "Float"} =>
                /\ val = Zero(kind)
                /\ Len(logs) = 1
        /\ (kind = "Bool" /\ ToLower(TrimSpace(last.in.txt)) \in TrueWords) =>
                /\ val = BoolV(TRUE)
                /\ logs = <<>>
        /\ (kind = "Bool" /\ ToLower(TrimSpace(last.in.txt)) \in FalseWords) =>
                /\ val = BoolV(FALSE)
                /\ logs = <<>>

\* the string " 7 " put an Int that held another value back to 0
OnlyBoolTrimsWitness ==
    /\ kind = "Int"
    /\ GivenString
    /\ last.in.txt = <<" ", "7", " ">>
    /\ last.old # IntV(0)
    /\ val = IntV(0)
    /\ Len(logs) = 1

\* what Value returns for a wrapper of kind k that holds v
ValueOf(k, v) ==
    CASE k = "Bool" -> BoolValue(v.b)
      [] k = "Int" -> IntValue(v.n)
      [] k = "Float" -> FloatValue(v.x)

\* the last call was a Scan of what Value returns for the value the
\* wrapper held
ScannedOwnValue ==
    /\ last.op = "Scan"
    /\ ValueOf(kind, last.old) = Ret(last.in, NoErr)

\* C22: after a Scan whose argument is the result of Value of a wrapper of
\* the same kind that holds v, the wrapper holds v, the call returned no
\* error and no diagnostic was emitted.
DatabaseRoundTrip ==
    ScannedOwnValue => (val = last.old /\ last.err = NoErr /\ logs = <<>>)

\* C23: whatever calls two instances of one kind were given before, when
\* their last calls are the same method with the same input they hold the
\* same value; so the value depends on the last call's input alone.
HistoryIndependent ==
    \A i, j \in Pair :
        (conc.inst[i].op # "none"
            /\ conc.inst[i].op = conc.inst[j].op
            /\ conc.inst[i].in = conc.inst[j].in)
        => conc.inst[i].val = conc.inst[j].val

\* two instances that held different values were given the same string
\* that does not parse, and both hold the zero value
HistoryIndependentWitness ==
    /\ conc.inst[1].old # conc.inst[2].old
    /\ conc.inst[1].old # Zero(kind)
    /\ conc.inst[1].op = "Scan"
    /\ conc.inst[2].op = "Scan"
    /\ conc.inst[1].in = RawString(<<"t","r","u">>)
    /\ conc.inst[2].in = RawString(<<"t","r","u">>)
    /\ conc.inst[1].val = Zero(kind)
    /\ conc.inst[2].val = Zero(kind)

\* the call takes a fallback path: a string that fails the kind's parse, a
\* token that is neither of the native kind nor a string, or a raw value
\* of a kind Scan does not accept
TakesFallback ==
    \/ GivenString /\ ParseFails(kind, last.in.txt)
    \/ last.op \in Deserializers /\ WrongKind(kind, last.in)
    \/ last.op = "Scan" /\ last.in.k \notin Accepted(kind)

\* the call adopts its input: a native token the kind holds, a string that
\* parses, a raw value of the native or a cross kind, or the database null
AdoptsInput ==
    \/ GivenString /\ ~ParseFails(kind, last.in.txt)
    \/ /\ last.op \in Deserializers
       /\ last.in.k = NativeTok(kind)
       /\ kind = "Int" => Atoi(last.in.txt).err = NoErr
       /\ kind = "Float" => ParseFloat(last.in.txt).err = NoErr
    \/ last.op = "Scan" /\ last.in.k \in Accepted(kind) \ {"string"}

\* C24: a Deserialize or Scan call that takes a fallback path emitted
\* exactly one diagnostic, and one that adopts its input emitted none.
DiagnosticsExactlyOnFallback ==
    /\ TakesFallback => Len(logs) = 1
    /\ AdoptsInput => logs = <<>>

==========================================================================
